---- MODULE Spec2Model ----
(***************************************************************************)
(* State-machine model of experiments/synthetic_data/models.py: the        *)
(* constructors of InvariantRiskMinimization, InvariantCausalPrediction,   *)
(* EnsembleERM and AdaBoostERM, and their solution() methods.              *)
(*                                                                         *)
(* Each constructor is one specification (SpecIRM, SpecICP, SpecEnsemble,  *)
(* SpecAdaBoost).  What the numerical libraries compute from the data      *)
(* (a regression's coefficients, a squared error, a p-value) is an input   *)
(* drawn from a small set; what the constructors do with those numbers is  *)
(* translated line by line.  Floating-point numbers are modelled by exact  *)
(* fractions num/den with den >= 0, where 1/0 is +inf, -1/0 is -inf and    *)
(* 0/0 is NaN; logarithms and powers are kept symbolic and compared        *)
(* exactly.                                                                *)
(***************************************************************************)
EXTENDS Integers, Sequences, FiniteSets, TLC

\* ------------------------------------------------------------------ bounds
\* Largest number of environments handed to a constructor.
MaxEnvs == 3
\* Largest args["n_iterations"] of InvariantRiskMinimization.train.
MaxIter == 1
\* Largest number of features InvariantCausalPrediction is given.
MaxDim == 2
\* Largest per-environment mean squared error of a classifier (AdaBoostERM).
MaxErr == 2

\* Coefficients a least-squares fit can give a feature.
CoefVals == {-1, 0, 2}

\* --------------------------------------------------------------- variables
VARIABLES
    environments,   \* the list handed to the constructor; its entries are named 1..n
    w_env,          \* input: the least-squares coefficient of each environment's own fit
    w_pool          \* input: the least-squares coefficient of the fit on all rows

\* InvariantRiskMinimization.__init__
VARIABLES
    irm_pc,         \* position in the constructor
    n_iterations,   \* args["n_iterations"]
    reg_i,          \* index in RegGrid of the loop variable reg
    iteration,      \* loop variable of train
    phi,            \* self.phi: 0 = attribute not set, g = the phi trained with RegGrid[g]
    err,            \* err of the candidate last validated
    best_err,
    best_reg,
    best_phi,       \* 0 = local name not bound
    errs,           \* history: err of each candidate validated so far
    train_arg,      \* history: the list each train call was handed
    train_read,     \* history: the entries of environments each train call read
    val_read        \* history: the entries each validation error was computed on

\* InvariantCausalPrediction.__init__
VARIABLES
    icp_pc,
    dim,                \* x_all.shape[1]; features are range(dim) = 0..dim-1
    alpha,              \* self.alpha, in hundredths
    pos,                \* how many tuples the powerset iterator has yielded
    subset,             \* loop variable of line 112: the tuple last yielded
    p_values,           \* the list of line 119 for that tuple, in hundredths
    accepted_subsets,
    tested,             \* history: how many times each set of features was fitted and tested
    accepted_features,
    refit,              \* history: least-squares coefficient of each feature in the fit of line 145
    coefficients        \* self.coefficients: <<>> = None

\* EnsembleERM.__init__
VARIABLES
    ens_pc,
    ens_k,          \* how many entries the loop of line 187 has taken
    ens_w,          \* the local w
    ens_self_w,     \* self.w
    fits            \* history: the rows (environments) each LinearRegression was fitted on

\* AdaBoostERM.__init__
VARIABLES
    ada_pc,
    i,                      \* loop variable of line 207
    lr_i,                   \* coef_ of the classifier of this round
    classifiers,            \* coef_ of each classifier kept
    classifier_weights,
    env_weights,
    mse,                    \* env_errors after line 225: the mean squared errors
    env_errors,             \* env_errors after line 227
    avg_error,
    beta,
    avg_errors,             \* history: avg_error of each round
    mse_of,                 \* the mean squared errors a classifier with a given coef_ has
    w_average,
    ada_w,                  \* the local w
    ada_self_w              \* self.w

irmOwn == <<irm_pc, n_iterations, reg_i, iteration, phi, err, best_err, best_reg,
            best_phi, errs, train_arg, train_read, val_read>>
icpOwn == <<icp_pc, dim, alpha, pos, subset, p_values, accepted_subsets, tested,
            accepted_features, refit, coefficients>>
ensOwn == <<ens_pc, ens_k, ens_w, ens_self_w, fits>>
adaOwn == <<ada_pc, i, lr_i, classifiers, classifier_weights, env_weights, mse,
            env_errors, avg_error, beta, avg_errors, mse_of, w_average, ada_w,
            ada_self_w>>

vars == <<environments, w_env, w_pool, irmOwn, icpOwn, ensOwn, adaOwn>>

\* What a constructor leaves alone: the state of the other three.
notIrm == <<w_env, w_pool, icpOwn, ensOwn, adaOwn>>
notIcp == <<w_env, w_pool, irmOwn, ensOwn, adaOwn>>
notEns == <<irmOwn, icpOwn, adaOwn>>
notAda == <<irmOwn, icpOwn, ensOwn>>

IrmIdle ==
    /\ irm_pc = "idle"
    /\ n_iterations = 0
    /\ reg_i = 0
    /\ iteration = 0
    /\ phi = 0
    /\ err = 0
    /\ best_err = 0
    /\ best_reg = 0
    /\ best_phi = 0
    /\ errs = <<>>
    /\ train_arg = <<>>
    /\ train_read = <<>>
    /\ val_read = <<>>

IcpIdle ==
    /\ icp_pc = "idle"
    /\ dim = 0
    /\ alpha = 0
    /\ pos = 0
    /\ subset = <<>>
    /\ p_values = <<>>
    /\ accepted_subsets = <<>>
    /\ tested = <<>>
    /\ accepted_features = <<>>
    /\ refit = <<>>
    /\ coefficients = <<>>

EnsIdle ==
    /\ ens_pc = "idle"
    /\ ens_k = 0
    /\ ens_w = 0
    /\ ens_self_w = <<>>
    /\ fits = <<>>

AdaIdle ==
    /\ ada_pc = "idle"
    /\ i = 0
    /\ lr_i = <<>>
    /\ classifiers = <<>>
    /\ classifier_weights = <<>>
    /\ env_weights = <<>>
    /\ mse = <<>>
    /\ env_errors = <<>>
    /\ avg_error = <<>>
    /\ beta = <<>>
    /\ avg_errors = <<>>
    /\ mse_of = <<>>
    /\ w_average = <<>>
    /\ ada_w = <<>>
    /\ ada_self_w = <<>>

\* ------------------------------------------------------- Python's lists
Range(s) == {s[k] : k \in 1..Len(s)}

\* s[:-1]: every entry but the last; the empty list when s is empty.
PyAllButLast(s) == IF Len(s) = 0 THEN <<>> ELSE SubSeq(s, 1, Len(s) - 1)

\* s[-1] and s[0] raise IndexError on the empty list.
PyIndexOk(s) == Len(s) > 0
PyLast(s) == s[Len(s)]
PyFirst(s) == s[1]

\* A list of n environments, named 1..n in order.
EnvList(n) == [k \in 1..n |-> k]

\* ------------------------------------------------- floating-point values
\* A float is a fraction [num, den] in lowest terms with den >= 0:
\* 1/0 is +inf, -1/0 is -inf, 0/0 is NaN.
Abs(x) == IF x < 0 THEN -x ELSE x
Sign(x) == IF x < 0 THEN -1 ELSE IF x > 0 THEN 1 ELSE 0

RECURSIVE Gcd(_, _)
Gcd(a, b) == IF b = 0 THEN Abs(a) ELSE Gcd(b, a % b)

Frac(n, d) ==
    LET g == Gcd(Abs(n), Abs(d))
    IN IF g = 0 THEN [num |-> 0, den |-> 0]
       ELSE [num |-> (Sign(d) + (1 - Abs(Sign(d)))) * (n \div g), den |-> Abs(d) \div g]

Num(n) == [num |-> n, den |-> 1]
NaN == [num |-> 0, den |-> 0]
PosInf == [num |-> 1, den |-> 0]
NegInf == [num |-> -1, den |-> 0]

IsNaN(a) == a.num = 0 /\ a.den = 0
IsInf(a) == a.num # 0 /\ a.den = 0
IsFinite(a) == a.den # 0

FMul(a, b) == Frac(a.num * b.num, a.den * b.den)
FDiv(a, b) == Frac(a.num * b.den * Sign(b.num) + a.num * b.den * (1 - Abs(Sign(b.num))),
                   a.den * Abs(b.num))
FNeg(a) == [num |-> -a.num, den |-> a.den]
FAdd(a, b) ==
    IF IsNaN(a) \/ IsNaN(b) THEN NaN
    ELSE IF IsInf(a) /\ IsInf(b) THEN (IF a.num = b.num THEN a ELSE NaN)
    ELSE IF IsInf(a) THEN a
    ELSE IF IsInf(b) THEN b
    ELSE Frac(a.num * b.den + b.num * a.den, a.den * b.den)
FSub(a, b) == FAdd(a, FNeg(b))

\* Comparisons; every comparison with NaN is false.
FLt(a, b) == ~IsNaN(a) /\ ~IsNaN(b) /\ a # b /\
    (IF IsInf(a) THEN a.num < 0
     ELSE IF IsInf(b) THEN b.num > 0
     ELSE a.num * b.den < b.num * a.den)
FLe(a, b) == ~IsNaN(a) /\ ~IsNaN(b) /\ (a = b \/ FLt(a, b))

\* np.sum, np.mean and np.max of a vector (a function from 1..n); the maximum of
\* a vector that holds NaN is NaN.
RECURSIVE FSumTo(_, _)
FSumTo(v, k) == IF k = 0 THEN Num(0) ELSE FAdd(FSumTo(v, k - 1), v[k])
FSum(v) == FSumTo(v, Len(v))
FMean(v) == FDiv(FSum(v), Num(Len(v)))
FMax(v) ==
    IF \E k \in 1..Len(v) : IsNaN(v[k]) THEN NaN
    ELSE CHOOSE m \in Range(v) : \A k \in 1..Len(v) : FLe(v[k], m)

\* ------------------------------------------- powers and logarithms, exact
\* A product of powers b^x of positive fractions b with fractional exponents x
\* is a set of factors [b, x] with distinct bases and non-zero exponents; the
\* empty set is 1.
RECURSIVE IntPow(_, _)
IntPow(b, k) == IF k = 0 THEN 1 ELSE b * IntPow(b, k - 1)

Bases(fs) == {f.b : f \in fs}
ExpOf(fs, b) == IF b \in Bases(fs) THEN (CHOOSE f \in fs : f.b = b).x ELSE Num(0)

SymMul(fs, gs) ==
    {[b |-> b, x |-> FAdd(ExpOf(fs, b), ExpOf(gs, b))] :
        b \in {c \in Bases(fs) \cup Bases(gs) : FAdd(ExpOf(fs, c), ExpOf(gs, c)) # Num(0)}}
SymInv(fs) == {[b |-> f.b, x |-> FNeg(f.x)] : f \in fs}

\* A common denominator of the exponents, and the products of the numerators and
\* of the denominators of the factors raised to those whole exponents.
RECURSIVE DenProduct(_)
DenProduct(fs) ==
    IF fs = {} THEN 1
    ELSE LET f == CHOOSE g \in fs : TRUE IN f.x.den * DenProduct(fs \ {f})

RECURSIVE UpProduct(_, _)
UpProduct(fs, L) ==
    IF fs = {} THEN 1
    ELSE LET f == CHOOSE g \in fs : TRUE
             k == f.x.num * (L \div f.x.den)
         IN (IF k > 0 THEN IntPow(f.b.num, k) ELSE IntPow(f.b.den, -k))
              * UpProduct(fs \ {f}, L)

RECURSIVE DownProduct(_, _)
DownProduct(fs, L) ==
    IF fs = {} THEN 1
    ELSE LET f == CHOOSE g \in fs : TRUE
             k == f.x.num * (L \div f.x.den)
         IN (IF k > 0 THEN IntPow(f.b.den, k) ELSE IntPow(f.b.num, -k))
              * DownProduct(fs \ {f}, L)

\* The product is at least 1, is 1: decided on its DenProduct-th power.
SymGeOne(fs) == UpProduct(fs, DenProduct(fs)) >= DownProduct(fs, DenProduct(fs))
SymLeOne(fs) == UpProduct(fs, DenProduct(fs)) <= DownProduct(fs, DenProduct(fs))
SymIsOne(fs) == SymGeOne(fs) /\ SymLeOne(fs)

\* The product as a fraction, when every exponent is a whole number.
SymWhole(fs) == \A f \in fs : f.x.den = 1
SymValue(fs) == Frac(UpProduct(fs, 1), DownProduct(fs, 1))

\* An entry of env_weights: NaN, 0, +inf, or a positive product of powers.
WNaN == [k |-> "nan", fs |-> {}]
WZero == [k |-> "zero", fs |-> {}]
WInf == [k |-> "inf", fs |-> {}]
WPos(fs) == [k |-> "pos", fs |-> fs]
WOne == WPos({})

\* A non-negative float as an entry.
WOf(a) ==
    IF IsNaN(a) \/ a.num < 0 THEN WNaN
    ELSE IF a.num = 0 THEN WZero
    ELSE IF a.den = 0 THEN WInf
    ELSE IF a = Num(1) THEN WOne
    ELSE WPos({[b |-> a, x |-> Num(1)]})

\* np.power(b, x) for a base b >= 0: pow(b, 0) and pow(1, x) are 1 whatever the
\* other argument is, a NaN argument gives NaN otherwise, 0 and +inf to a
\* non-zero power are 0 or +inf.
PyPower(b, x) ==
    IF x = Num(0) \/ b = Num(1) THEN WOne
    ELSE IF IsNaN(b) \/ IsNaN(x) \/ b.num < 0 THEN WNaN
    ELSE IF IsInf(x) THEN
        (IF (x.num > 0) = FLt(Num(1), b) THEN WInf ELSE WZero)
    ELSE IF b.num = 0 THEN (IF x.num > 0 THEN WZero ELSE WInf)
    ELSE IF b.den = 0 THEN (IF x.num > 0 THEN WInf ELSE WZero)
    ELSE WPos({[b |-> b, x |-> x]})

\* np.multiply and / on entries.
WMul(u, v) ==
    IF u.k = "nan" \/ v.k = "nan" THEN WNaN
    ELSE IF u.k = "zero" THEN (IF v.k = "inf" THEN WNaN ELSE WZero)
    ELSE IF u.k = "inf" THEN (IF v.k = "zero" THEN WNaN ELSE WInf)
    ELSE IF v.k # "pos" THEN v
    ELSE WPos(SymMul(u.fs, v.fs))

WRecip(v) ==
    IF v.k = "nan" THEN WNaN
    ELSE IF v.k = "zero" THEN WInf
    ELSE IF v.k = "inf" THEN WZero
    ELSE WPos(SymInv(v.fs))

WDiv(u, v) == WMul(u, WRecip(v))

\* u >= v; false when either is NaN.
WGe(u, v) ==
    /\ u.k # "nan"
    /\ v.k # "nan"
    /\ \/ v.k = "zero"
       \/ u.k = "inf"
       \/ u.k = "pos" /\ v.k = "pos" /\ SymGeOne(SymMul(u.fs, SymInv(v.fs)))

WIsOne(u) == u.k = "pos" /\ SymIsOne(u.fs)

\* np.max of a vector of entries.
WMax(ws) ==
    IF \E e \in 1..Len(ws) : ws[e].k = "nan" THEN WNaN
    ELSE CHOOSE m \in Range(ws) : \A e \in 1..Len(ws) : WGe(m, ws[e])

\* The sum of a vector of entries is 1.  A vector with an entry equal to 1 sums to
\* 1 exactly when every other entry is 0; a vector of fractions is added up; the
\* vectors of this program (uniform, or divided by their maximum) are of one of
\* the two kinds.
RECURSIVE WValueSum(_, _)
WValueSum(ws, n) ==
    IF n = 0 THEN Num(0)
    ELSE FAdd(WValueSum(ws, n - 1),
              IF ws[n].k = "zero" THEN Num(0) ELSE SymValue(ws[n].fs))

WSumIsOne(ws) ==
    IF \E e \in 1..Len(ws) : WIsOne(ws[e])
    THEN Cardinality({e \in 1..Len(ws) : ws[e].k # "zero"}) = 1
    ELSE /\ \A e \in 1..Len(ws) : ws[e].k = "zero" \/ SymWhole(ws[e].fs)
         /\ WValueSum(ws, Len(ws)) = Num(1)

\* What np.random.choice(n, p=ws) demands of p: no NaN, nothing negative, sum 1.
ValidP(ws) ==
    /\ \A e \in 1..Len(ws) : ws[e].k \in {"zero", "pos"}
    /\ WSumIsOne(ws)

\* A sum of terms c * log(b)/2 and of fractions: NaN, +inf, -inf, or
\* r + log(product of the b^c)/2.
LNaN == [k |-> "nan", r |-> Num(0), fs |-> {}]
LInf(s) == [k |-> IF s > 0 THEN "pinf" ELSE "ninf", r |-> Num(0), fs |-> {}]
LFin(r, fs) == [k |-> "fin", r |-> r, fs |-> fs]
LZero == LFin(Num(0), {})

\* A float as such a sum.
LOf(a) ==
    IF IsNaN(a) THEN LNaN
    ELSE IF IsInf(a) THEN LInf(a.num)
    ELSE LFin(a, {})

\* np.log(b)/2.0: NaN for NaN and for b < 0, -inf for 0, +inf for +inf.
HalfLog(b) ==
    IF IsNaN(b) \/ b.num < 0 THEN LNaN
    ELSE IF b.num = 0 THEN LInf(-1)
    ELSE IF b.den = 0 THEN LInf(1)
    ELSE IF b = Num(1) THEN LZero
    ELSE LFin(Num(0), {[b |-> b, x |-> Num(1)]})

LIsZero(u) == u.k = "fin" /\ u.r = Num(0) /\ SymIsOne(u.fs)

\* The sign of log(product)/2: of the product compared with 1.
LSign(u) ==
    IF u.k = "pinf" THEN 1
    ELSE IF u.k = "ninf" THEN -1
    ELSE IF u.fs = {} THEN Sign(u.r.num)
    ELSE IF SymIsOne(u.fs) THEN Sign(u.r.num)
    ELSE IF SymGeOne(u.fs) /\ u.r.num >= 0 THEN 1
    ELSE IF SymLeOne(u.fs) /\ u.r.num <= 0 THEN -1
    ELSE 0

\* u * c for a finite fraction c.
LScale(u, c) ==
    IF u.k = "nan" THEN LNaN
    ELSE IF u.k \in {"pinf", "ninf"} THEN
        (IF c.num = 0 THEN LNaN ELSE LInf(LSign(u) * Sign(c.num)))
    ELSE LFin(FMul(u.r, c), {[b |-> f.b, x |-> FMul(f.x, c)] : f \in {g \in u.fs : c.num # 0}})

LAdd(u, v) ==
    IF u.k = "nan" \/ v.k = "nan" THEN LNaN
    ELSE IF u.k \in {"pinf", "ninf"} THEN
        (IF v.k \in {"pinf", "ninf"} /\ v.k # u.k THEN LNaN ELSE u)
    ELSE IF v.k \in {"pinf", "ninf"} THEN v
    ELSE LFin(FAdd(u.r, v.r), SymMul(u.fs, v.fs))

\* u / v.  A quotient of two finite non-zero sums is kept as the pair: log(b)/2
\* is never 1 for a fraction b, so such a quotient is a number of its own.
LQuot(u, v) ==
    IF u.k = "nan" \/ v.k = "nan" THEN LNaN
    ELSE IF v.k \in {"pinf", "ninf"} THEN (IF u.k = "fin" THEN LZero ELSE LNaN)
    ELSE IF LIsZero(v) THEN (IF LIsZero(u) THEN LNaN ELSE LInf(LSign(u)))
    ELSE IF u.k \in {"pinf", "ninf"} THEN LInf(LSign(u) * LSign(v))
    ELSE IF LIsZero(u) THEN LZero
    ELSE [k |-> "quot", num |-> u, den |-> v]

\* ============================================ InvariantRiskMinimization
\* The grid of line 38, in units of 1e-5.
RegGrid == <<0, 1, 10, 100, 1000, 10000>>

\* best_err = 1e6 of line 33.
BestErrInit == 1000000

\* Validation errors a candidate can have: (x_val @ solution - y_val)^2 mean is
\* any non-negative number, below or above the starting best_err.
ErrVals == {0, 1, BestErrInit, BestErrInit + 1}

\* environments[:-1] of line 39, with the wrong slice as the faulty variant.
TrainSliceAll(envs) == envs
TrainSlice(envs) == PyAllButLast(envs)

IrmInit ==
    /\ irm_pc = "start"
    /\ environments \in {EnvList(n) : n \in 0..MaxEnvs}
    /\ n_iterations \in 0..MaxIter
    /\ reg_i = 0
    /\ iteration = 0
    /\ phi = 0
    /\ err = 0
    /\ best_err = 0
    /\ best_reg = 0
    /\ best_phi = 0
    /\ errs = <<>>
    /\ train_arg = <<>>
    /\ train_read = <<>>
    /\ val_read = <<>>
    /\ w_env = <<>>
    /\ w_pool = 0

\* Lines 32-36: the two bests, then x_val and y_val from environments[-1].
IrmBegin ==
    /\ irm_pc = "start"
    /\ IF PyIndexOk(environments)
       THEN /\ irm_pc' = "train"
            /\ best_reg' = 0
            /\ best_err' = BestErrInit
            /\ reg_i' = 1
       ELSE /\ irm_pc' = "raised"
            /\ UNCHANGED <<best_reg, best_err, reg_i>>
    /\ UNCHANGED <<notIrm, environments, n_iterations, iteration, phi, err, best_phi,
                   errs, train_arg, train_read, val_read>>

\* Line 39 and lines 54-63: train is entered with environments[:-1]; dim_x reads
\* its first entry (IndexError when the slice is empty); self.phi is a new matrix.
IrmTrainEnter ==
    /\ irm_pc = "train"
    /\ LET arg == TrainSlice(environments) IN
       /\ train_arg' = Append(train_arg, arg)
       /\ IF PyIndexOk(arg)
          THEN /\ train_read' = Append(train_read, {PyFirst(arg)})
               /\ phi' = reg_i
               /\ iteration' = 0
               /\ irm_pc' = "iterate"
          ELSE /\ irm_pc' = "raised"
               /\ UNCHANGED <<train_read, phi, iteration>>
    /\ UNCHANGED <<notIrm, environments, n_iterations, reg_i, err, best_err, best_reg,
                   best_phi, errs, val_read>>

\* Lines 65-77: one iteration reads every (x_e, y_e) of the list train was handed
\* and steps self.phi.
IrmTrainIterate ==
    /\ irm_pc = "iterate"
    /\ iteration < n_iterations
    /\ LET c == Len(train_arg) IN
       train_read' = [train_read EXCEPT ![c] = @ \cup Range(train_arg[c])]
    /\ iteration' = iteration + 1
    /\ UNCHANGED <<notIrm, irm_pc, environments, n_iterations, reg_i, phi, err, best_err,
                   best_reg, best_phi, errs, train_arg, val_read>>

\* Line 65 when range(n_iterations) is exhausted, then line 40: err is computed
\* from x_val, y_val (environments[-1]) and self.solution().
IrmValidate ==
    /\ irm_pc = "iterate"
    /\ iteration >= n_iterations
    /\ \E e \in ErrVals :
        /\ err' = e
        /\ errs' = Append(errs, e)
    /\ val_read' = Append(val_read, {PyLast(environments)})
    /\ irm_pc' = "select"
    /\ UNCHANGED <<notIrm, environments, n_iterations, reg_i, iteration, phi, best_err,
                   best_reg, best_phi, train_arg, train_read>>

\* Lines 46-49, then the next reg of line 38.
IrmSelect ==
    /\ irm_pc = "select"
    /\ IF err < best_err
       THEN /\ best_err' = err
            /\ best_reg' = RegGrid[reg_i]
            /\ best_phi' = phi
       ELSE UNCHANGED <<best_err, best_reg, best_phi>>
    /\ IF reg_i < Len(RegGrid)
       THEN /\ reg_i' = reg_i + 1
            /\ irm_pc' = "train"
       ELSE /\ reg_i' = reg_i
            /\ irm_pc' = "assign"
    /\ UNCHANGED <<notIrm, environments, n_iterations, iteration, phi, err, errs,
                   train_arg, train_read, val_read>>

\* Line 50: self.phi = best_phi; UnboundLocalError when line 49 never ran.
IrmAssign ==
    /\ irm_pc = "assign"
    /\ IF best_phi # 0
       THEN /\ phi' = best_phi
            /\ irm_pc' = "done"
       ELSE /\ phi' = phi
            /\ irm_pc' = "raised"
    /\ UNCHANGED <<notIrm, environments, n_iterations, reg_i, iteration, err, best_err,
                   best_reg, best_phi, errs, train_arg, train_read, val_read>>

IrmNext ==
    \/ IrmBegin
    \/ IrmTrainEnter
    \/ IrmTrainIterate
    \/ IrmValidate
    \/ IrmSelect
    \/ IrmAssign

IrmStart == IrmInit /\ IcpIdle /\ EnsIdle /\ AdaIdle

SpecIRM == IrmStart /\ [][IrmNext]_vars

\* The index of the first least entry of a non-empty sequence.
ArgMinFirst(s) ==
    CHOOSE k \in 1..Len(s) :
        /\ \A j \in 1..Len(s) : s[k] <= s[j]
        /\ \A j \in 1..(k - 1) : s[j] > s[k]

\* C1: once the six candidates have been trained and validated, construction
\* completes and self.phi is the phi of the candidate with the least validation
\* error, the earliest one on ties.
C1_MinimumSelected ==
    (Len(errs) = Len(RegGrid) /\ irm_pc \in {"done", "raised"})
        => (irm_pc = "done" /\ phi = ArgMinFirst(errs))

\* C9: every train call is handed, and reads, only the environments before the
\* last one; every validation error is computed on the last one only; all
\* candidates are handed the same list.
C9_ValidationHeldOut ==
    /\ \A c \in 1..Len(train_arg) :
        /\ train_arg[c] = PyAllButLast(environments)
        /\ train_arg[c] = train_arg[1]
    /\ \A c \in 1..Len(train_read) :
        /\ train_read[c] \subseteq Range(environments) \ {PyLast(environments)}
        /\ train_read[c] \subseteq Range(train_arg[c])
    /\ \A c \in 1..Len(val_read) : val_read[c] = {PyLast(environments)}

C9_Witness ==
    /\ irm_pc = "done"
    /\ Len(environments) >= 3
    /\ n_iterations >= 1
    /\ Len(val_read) = Len(RegGrid)
    /\ \A c \in 1..Len(train_read) :
        train_read[c] = Range(environments) \ {PyLast(environments)}

\* ============================================ InvariantCausalPrediction
\* args["alpha"] and the values mean_var_test returns, in hundredths.
AlphaVals == {5, 6}
PVals == {0, 2, 3}

\* itertools.combinations(s, r): the r-tuples of s in lexicographic order of position.
RECURSIVE combinations(_, _)
combinations(s, r) ==
    IF r = 0 THEN << <<>> >>
    ELSE IF Len(s) < r THEN <<>>
    ELSE LET with == combinations(Tail(s), r - 1)
             without == combinations(Tail(s), r)
         IN [k \in 1..Len(with) |-> <<Head(s)>> \o with[k]] \o without

\* chain.from_iterable(f(r) for r in lo..hi)
RECURSIVE ChainCombinations(_, _, _)
ChainCombinations(s, lo, hi) ==
    IF lo > hi THEN <<>>
    ELSE combinations(s, lo) \o ChainCombinations(s, lo + 1, hi)

\* Lines 162-163, with range(len(s)) for range(len(s) + 1) as the faulty variant.
powersetShort(s) == ChainCombinations(s, 0, Len(s) - 1)
powerset(s) == ChainCombinations(s, 0, Len(s))

\* range(dim) as a list.
PyRange(d) == [k \in 1..d |-> k - 1]

\* Python's min of a non-empty list of numbers.
RECURSIVE PyMin(_)
PyMin(s) ==
    IF Len(s) = 1 THEN s[1]
    ELSE LET m == PyMin(SubSeq(s, 1, Len(s) - 1))
         IN IF s[Len(s)] < m THEN s[Len(s)] ELSE m

\* Lines 130 and 132, with >= for > as the faulty variant.
AcceptsWeak(pv, nenv, a) == PyMin(pv) * nenv >= a
Accepts(pv, nenv, a) == PyMin(pv) * nenv > a

\* set.intersection(*sets) of a non-empty list of sets.
RECURSIVE SetIntersection(_)
SetIntersection(sets) ==
    IF Len(sets) = 1 THEN sets[1]
    ELSE sets[1] \cap SetIntersection(Tail(sets))

RECURSIVE SetUnion(_)
SetUnion(sets) ==
    IF Len(sets) = 1 THEN sets[1]
    ELSE sets[1] \cup SetUnion(Tail(sets))

\* Line 138, with the union as the faulty variant.
AcceptedFeaturesUnion(sets) == SetUnion(sets)
AcceptedFeatures(sets) == SetIntersection(sets)

\* The orders list(a_set) can have.
ListsOf(S) ==
    {l \in [1..Cardinality(S) -> S] : \A a, b \in 1..Cardinality(S) : l[a] = l[b] => a = b}

\* np.zeros(d)
Zeros(d) == [j \in 0..(d - 1) |-> 0]

\* Line 146: coefficients[idx] = coef, entry by entry.
SetAt(c, idx, coef) ==
    [j \in DOMAIN c |->
        IF \E k \in 1..Len(idx) : idx[k] = j
        THEN coef[CHOOSE k \in 1..Len(idx) : idx[k] = j]
        ELSE c[j]]

IcpInit ==
    /\ icp_pc = "start"
    /\ environments \in {EnvList(n) : n \in 0..MaxEnvs}
    /\ dim \in 0..MaxDim
    /\ alpha \in AlphaVals
    /\ pos = 0
    /\ subset = <<>>
    /\ p_values = <<>>
    /\ accepted_subsets = <<>>
    /\ tested = [S \in SUBSET (0..(dim - 1)) |-> 0]
    /\ accepted_features = <<>>
    /\ refit = <<>>
    /\ coefficients = <<>>
    /\ w_env = <<>>
    /\ w_pool = 0

\* Lines 93-111: np.vstack raises ValueError on an empty list of environments.
IcpBegin ==
    /\ icp_pc = "start"
    /\ icp_pc' = IF Len(environments) = 0 THEN "raised" ELSE "loop"
    /\ UNCHANGED <<notIcp, environments, dim, alpha, pos, subset, p_values, accepted_subsets,
                   tested, accepted_features, refit, coefficients>>

\* Lines 112-114: the iterator yields the empty tuple, which is skipped.
IcpSkipEmpty ==
    /\ icp_pc = "loop"
    /\ pos < Len(powerset(PyRange(dim)))
    /\ LET s == powerset(PyRange(dim))[pos + 1] IN
       /\ Len(s) = 0
       /\ subset' = s
    /\ pos' = pos + 1
    /\ UNCHANGED <<notIcp, icp_pc, environments, dim, alpha, p_values, accepted_subsets,
                   tested, accepted_features, refit, coefficients>>

\* Lines 112-135 for a non-empty tuple: one fit, one p-value per environment, and
\* the tuple's set is appended when accepted. With a single environment e_out is
\* empty and reg.predict raises ValueError on its zero rows.
IcpTest ==
    /\ icp_pc = "loop"
    /\ pos < Len(powerset(PyRange(dim)))
    /\ LET s == powerset(PyRange(dim))[pos + 1] IN
       /\ Len(s) # 0
       /\ subset' = s
       /\ tested' = [tested EXCEPT ![Range(s)] = @ + 1]
       /\ IF Len(environments) = 1
          THEN /\ icp_pc' = "raised"
               /\ UNCHANGED <<p_values, accepted_subsets>>
          ELSE /\ icp_pc' = "loop"
               /\ \E pv \in [1..Len(environments) -> PVals] :
                    /\ p_values' = pv
                    /\ accepted_subsets' =
                         IF Accepts(pv, Len(environments), alpha)
                         THEN Append(accepted_subsets, Range(s))
                         ELSE accepted_subsets
    /\ pos' = pos + 1
    /\ UNCHANGED <<notIcp, environments, dim, alpha, accepted_features, refit, coefficients>>

\* Lines 137-150, once the iterator is exhausted.
IcpFinish ==
    /\ icp_pc = "loop"
    /\ pos = Len(powerset(PyRange(dim)))
    /\ IF Len(accepted_subsets) # 0
       THEN \E l \in ListsOf(AcceptedFeatures(accepted_subsets)) :
              /\ accepted_features' = l
              /\ IF Len(l) # 0
                 THEN \E w \in [Range(l) -> CoefVals] :
                        LET coef_ == [k \in 1..Len(l) |-> w[l[k]]] IN
                        /\ refit' = w
                        /\ coefficients' = SetAt(Zeros(dim), l, coef_)
                 ELSE /\ refit' = refit
                      /\ coefficients' = Zeros(dim)
       ELSE /\ coefficients' = Zeros(dim)
            /\ UNCHANGED <<accepted_features, refit>>
    /\ icp_pc' = "done"
    /\ UNCHANGED <<notIcp, environments, dim, alpha, pos, subset, p_values, accepted_subsets,
                   tested>>

IcpNext ==
    \/ IcpBegin
    \/ IcpSkipEmpty
    \/ IcpTest
    \/ IcpFinish

IcpStart == IcpInit /\ IrmIdle /\ EnsIdle /\ AdaIdle

SpecICP == IcpStart /\ [][IcpNext]_vars

\* The features every accepted subset holds; none when nothing was accepted.
CommonFeatures ==
    IF Len(accepted_subsets) = 0 THEN {}
    ELSE {j \in 0..(dim - 1) : \A k \in 1..Len(accepted_subsets) : j \in accepted_subsets[k]}

\* C2: the vector solution() returns has one entry per feature; a feature missing
\* from some accepted subset (every feature, when nothing was accepted or the
\* subsets share nothing) has coefficient 0, a feature common to all accepted
\* subsets has its coefficient of the refit; only a degenerate list of
\* environments makes the constructor raise.
C2_IntersectionRefit ==
    /\ icp_pc = "done" =>
        /\ DOMAIN coefficients = 0..(dim - 1)
        /\ \A j \in 0..(dim - 1) :
            coefficients[j] = IF j \in CommonFeatures THEN refit[j] ELSE 0
    /\ icp_pc = "raised" => Len(environments) <= 1

C2_Witness ==
    /\ icp_pc = "done"
    /\ Len(accepted_subsets) >= 2
    /\ CommonFeatures # {}
    /\ CommonFeatures # 0..(dim - 1)
    /\ \E j \in CommonFeatures : coefficients[j] # 0

\* The least of a non-empty list of numbers.
Least(s) == CHOOSE m \in Range(s) : \A x \in Range(s) : m <= x

NonEmptySubsets == (SUBSET (0..(dim - 1))) \ {{}}

\* What one step of the constructor may do to accepted_subsets: a step that tests a
\* subset appends it exactly when the least p-value times the number of
\* environments exceeds alpha; no other step changes the list.
C3_AcceptStep ==
    IF icp_pc = "loop" /\ icp_pc' = "loop" /\ pos' = pos + 1 /\ Len(subset') # 0
    THEN accepted_subsets' =
            IF Least(p_values') * Len(environments) > alpha
            THEN Append(accepted_subsets, Range(subset'))
            ELSE accepted_subsets
    ELSE accepted_subsets' = accepted_subsets

\* C3: no set of features is tested twice and the empty set never; when the loop
\* is over every non-empty set has been tested once; a subset is accepted exactly
\* when its least p-value times the number of environments is above alpha, and an
\* accepted subset stays accepted.
C3_ExhaustiveStrictAcceptance ==
    /\ [](icp_pc \in {"loop", "done"} =>
            /\ tested[{}] = 0
            /\ \A S \in NonEmptySubsets : tested[S] <= 1
            /\ \A k \in 1..Len(accepted_subsets) : tested[accepted_subsets[k]] = 1)
    /\ [](icp_pc = "done" => \A S \in NonEmptySubsets : tested[S] = 1)
    /\ [][C3_AcceptStep]_vars

C3_Witness ==
    /\ icp_pc = "done"
    /\ dim = MaxDim
    /\ Len(accepted_subsets) > 0
    /\ Len(accepted_subsets) < Cardinality(NonEmptySubsets)
    /\ Least(p_values) * Len(environments) = alpha

\* ============================================================ EnsembleERM
\* The orders a list of n environments can be handed over in.
Orders(n) == {l \in [1..n -> 1..n] : \A a, b \in 1..n : l[a] = l[b] => a = b}

\* Line 185: the pooled coefficients times 0.0, with the factor left out as the faulty variant.
PooledStartKept(c) == Num(c)
PooledStart(c) == FMul(Num(c), Num(0))

\* The per-environment fits and the pooled fit are the same fit when there is one
\* environment.
FitInputs(n) ==
    /\ w_env \in [1..n -> CoefVals]
    /\ w_pool \in CoefVals
    /\ n = 1 => w_pool = w_env[1]

EnsInit ==
    /\ ens_pc = "start"
    /\ \E n \in 0..MaxEnvs :
        /\ environments \in Orders(n)
        /\ FitInputs(n)
    /\ ens_k = 0
    /\ ens_w = Num(0)
    /\ ens_self_w = <<>>
    /\ fits = <<>>

\* Lines 183-185: torch.cat raises on an empty list; else the pooled fit, times 0.0.
EnsBegin ==
    /\ ens_pc = "start"
    /\ IF Len(environments) = 0
       THEN /\ ens_pc' = "raised"
            /\ UNCHANGED <<ens_w, fits>>
       ELSE /\ ens_pc' = "loop"
            /\ fits' = Append(fits, [kind |-> "pooled", rows |-> Range(environments)])
            /\ ens_w' = PooledStart(w_pool)
    /\ UNCHANGED <<notEns, environments, w_env, w_pool, ens_k, ens_self_w>>

\* Lines 187-189: the next (x_e, y_e) is fitted alone and its coefficients added.
EnsFit ==
    /\ ens_pc = "loop"
    /\ ens_k < Len(environments)
    /\ LET e == environments[ens_k + 1] IN
       /\ fits' = Append(fits, [kind |-> "env", rows |-> {e}])
       /\ ens_w' = FAdd(ens_w, Num(w_env[e]))
    /\ ens_k' = ens_k + 1
    /\ UNCHANGED <<notEns, environments, w_env, w_pool, ens_pc, ens_self_w>>

\* Lines 190-191.
EnsFinish ==
    /\ ens_pc = "loop"
    /\ ens_k = Len(environments)
    /\ ens_w' = FDiv(ens_w, Num(Len(environments)))
    /\ ens_self_w' = ens_w'
    /\ ens_pc' = "done"
    /\ UNCHANGED <<notEns, environments, w_env, w_pool, ens_k, fits>>

EnsNext ==
    \/ EnsBegin
    \/ EnsFit
    \/ EnsFinish

EnsStart == EnsInit /\ IrmIdle /\ IcpIdle /\ AdaIdle

SpecEnsemble == EnsStart /\ [][EnsNext]_vars

\* The sum of f over a finite set of environments.
RECURSIVE SumOver(_, _)
SumOver(f, S) ==
    IF S = {} THEN 0
    ELSE LET e == CHOOSE x \in S : TRUE IN f[e] + SumOver(f, S \ {e})

\* C8: when the constructor is done, each environment has had exactly one
\* regression fitted on its rows alone, and n times the vector solution() returns
\* is the sum of the environments' coefficients: the pooled coefficients and the
\* order of the list play no part.
C8_UniformAverage ==
    ens_pc = "done" =>
        /\ \A e \in Range(environments) :
            Cardinality({k \in 1..Len(fits) :
                fits[k].kind = "env" /\ e \in fits[k].rows}) = 1
        /\ \A k \in 1..Len(fits) :
            fits[k].kind = "env" => Cardinality(fits[k].rows) = 1
        /\ IsFinite(ens_self_w)
        /\ ens_self_w.num * Len(environments)
             = ens_self_w.den * SumOver(w_env, Range(environments))

C8_Witness ==
    /\ ens_pc = "done"
    /\ Len(environments) = 3
    /\ environments[1] > environments[2]
    /\ w_pool # 0
    /\ w_env[1] # w_env[2]
    /\ ens_self_w = Frac(1, 3)

\* ============================================================ AdaBoostERM
\* num_classifiers of line 198.
num_classifiers == 10

\* The mean squared errors a classifier can have on an environment.
MseVals == {Num(m) : m \in 0..MaxErr}

\* Line 227, with division by the sum as the faulty variant.
NormaliseBySum(v) == [e \in 1..Len(v) |-> FDiv(v[e], FSum(v))]
Normalise(v) == [e \in 1..Len(v) |-> FDiv(v[e], FMax(v))]

\* Line 229, with the inverted odds as the faulty variant.
BetaInverted(avg) == FDiv(avg, FSub(Num(1), avg))
BetaOf(avg) == FDiv(FSub(Num(1), avg), avg)

\* np.ones(n)/n
Uniform(n) == [e \in 1..n |-> WOf(FDiv(Num(1), Num(n)))]

AdaInit ==
    /\ ada_pc = "start"
    /\ \E n \in 0..MaxEnvs :
        /\ environments = EnvList(n)
        /\ FitInputs(n)
    /\ i = 0
    /\ lr_i = <<>>
    /\ classifiers = <<>>
    /\ classifier_weights = <<>>
    /\ env_weights = <<>>
    /\ mse = <<>>
    /\ env_errors = <<>>
    /\ avg_error = NaN
    /\ beta = NaN
    /\ avg_errors = <<>>
    /\ mse_of = <<>>
    /\ w_average = <<>>
    /\ ada_w = <<>>
    /\ ada_self_w = <<>>

\* Lines 198-207: torch.cat raises on an empty list of environments.
AdaBegin ==
    /\ ada_pc = "start"
    /\ IF Len(environments) = 0
       THEN /\ ada_pc' = "raised"
            /\ UNCHANGED <<classifier_weights, env_weights, env_errors>>
       ELSE /\ ada_pc' = "fit"
            /\ classifier_weights' =
                 [k \in 1..num_classifiers |-> LOf(FDiv(Num(1), Num(num_classifiers)))]
            /\ env_weights' = Uniform(Len(environments))
            /\ env_errors' = [e \in 1..Len(environments) |-> Num(0)]
    /\ UNCHANGED <<notAda, environments, w_env, w_pool, i, lr_i, classifiers, mse,
                   avg_error, beta, avg_errors, mse_of, w_average, ada_w, ada_self_w>>

\* The sum of the environments' coefficients, in the order of the list.
RECURSIVE CoefSumTo(_)
CoefSumTo(k) ==
    IF k = 0 THEN PooledStart(w_pool)
    ELSE FAdd(CoefSumTo(k - 1), Num(w_env[environments[k]]))

\* Lines 208-217: the first classifier has the average of the environments'
\* coefficients; lr_i.coef_ and w_average are the same array.
AdaFitAverage ==
    /\ ada_pc = "fit"
    /\ i = 0
    /\ w_average' = FDiv(CoefSumTo(Len(environments)), Num(Len(environments)))
    /\ lr_i' = w_average'
    /\ ada_pc' = "errors"
    /\ UNCHANGED <<notAda, environments, w_env, w_pool, i, classifiers,
                   classifier_weights, env_weights, mse, env_errors, avg_error, beta,
                   avg_errors, mse_of, ada_w, ada_self_w>>

\* Lines 218-221: np.random.choice raises ValueError unless env_weights is a
\* probability vector; else an environment of non-zero weight is drawn and fitted.
AdaSampleFit ==
    /\ ada_pc = "fit"
    /\ i # 0
    /\ IF ValidP(env_weights)
       THEN \E e \in 1..Len(environments) :
              /\ env_weights[e].k # "zero"
              /\ lr_i' = Num(w_env[environments[e]])
              /\ ada_pc' = "errors"
       ELSE /\ ada_pc' = "raised"
            /\ lr_i' = lr_i
    /\ UNCHANGED <<notAda, environments, w_env, w_pool, i, classifiers,
                   classifier_weights, env_weights, mse, env_errors, avg_error, beta,
                   avg_errors, mse_of, w_average, ada_w, ada_self_w>>

\* Lines 223-230: the classifier's mean squared error on each environment (the
\* same numbers whenever the same coefficients predict), divided by the largest;
\* their mean; beta; the classifier's weight.
AdaErrors ==
    /\ ada_pc = "errors"
    /\ \E v \in [1..Len(environments) -> MseVals] :
        /\ lr_i \in DOMAIN mse_of => v = mse_of[lr_i]
        /\ mse' = v
        /\ mse_of' = [c \in DOMAIN mse_of \cup {lr_i} |-> IF c = lr_i THEN v ELSE mse_of[c]]
    /\ env_errors' = Normalise(mse')
    /\ avg_error' = FMean(env_errors')
    /\ beta' = BetaOf(avg_error')
    /\ classifier_weights' = [classifier_weights EXCEPT ![i + 1] = HalfLog(beta')]
    /\ avg_errors' = Append(avg_errors, avg_error')
    /\ ada_pc' = "reweight"
    /\ UNCHANGED <<notAda, environments, w_env, w_pool, i, lr_i, classifiers,
                   env_weights, w_average, ada_w, ada_self_w>>

\* Lines 232-236, and line 207 for the next round.
AdaReweight ==
    /\ ada_pc = "reweight"
    /\ LET updated == [e \in 1..Len(environments) |->
                          WMul(env_weights[e],
                               PyPower(beta, FSub(Num(1), env_errors[e])))]
       IN env_weights' = [e \in 1..Len(environments) |->
                             WDiv(updated[e], WMax(updated))]
    /\ classifiers' = Append(classifiers, lr_i)
    /\ i' = i + 1
    /\ ada_pc' = IF i + 1 < num_classifiers THEN "fit" ELSE "combine"
    /\ UNCHANGED <<notAda, environments, w_env, w_pool, lr_i, classifier_weights, mse,
                   env_errors, avg_error, beta, avg_errors, mse_of, w_average, ada_w,
                   ada_self_w>>

\* sum_k weights[k] * coefs[k] from start, for k = 1..n.
RECURSIVE WeightedSumTo(_, _, _, _)
WeightedSumTo(start, weights, coefs, n) ==
    IF n = 0 THEN start
    ELSE LAdd(WeightedSumTo(start, weights, coefs, n - 1),
              LScale(weights[n], coefs[n]))

\* Python's sum(weights).
SumOfWeights(weights) ==
    WeightedSumTo(LZero, weights, [k \in 1..Len(weights) |-> Num(1)], Len(weights))

\* Lines 238-244: w is the weighted sum; the division of line 242 is applied to
\* w_average; self.w is w.
AdaCombine ==
    /\ ada_pc = "combine"
    /\ ada_w' = WeightedSumTo(LOf(PooledStart(w_pool)), classifier_weights,
                              classifiers, num_classifiers)
    /\ w_average' = LQuot(LOf(w_average), SumOfWeights(classifier_weights))
    /\ ada_self_w' = ada_w'
    /\ ada_pc' = "done"
    /\ UNCHANGED <<notAda, environments, w_env, w_pool, i, lr_i, classifiers,
                   classifier_weights, env_weights, mse, env_errors, avg_error, beta,
                   avg_errors, mse_of>>

AdaNext ==
    \/ AdaBegin
    \/ AdaFitAverage
    \/ AdaSampleFit
    \/ AdaErrors
    \/ AdaReweight
    \/ AdaCombine

AdaStart == AdaInit /\ IrmIdle /\ IcpIdle /\ EnsIdle

SpecAdaBoost == AdaStart /\ [][AdaNext]_vars

\* The weights and coefficient vectors of the classifiers made so far.
RoundsDone == Len(avg_errors)

\* u <= v for sums of logarithms; false when either is NaN.
LLe(u, v) ==
    /\ u.k # "nan"
    /\ v.k # "nan"
    /\ \/ u.k = "ninf"
       \/ v.k = "pinf"
       \/ u.k = "fin" /\ v.k = "fin" /\ LSign(LAdd(v, LScale(u, Num(-1)))) >= 0

\* C4: the vector solution() returns is the classifiers' weighted sum divided by
\* the sum of the classifier weights.
C4_WeightedAverage ==
    ada_pc = "done" =>
        ada_self_w = LQuot(WeightedSumTo(LZero, classifier_weights, classifiers,
                                         num_classifiers),
                           SumOfWeights(classifier_weights))

\* No round so far divided by a zero maximum error.
NoZeroMax == \A e \in 1..Len(env_weights) : env_weights[e].k # "nan"

\* C5: whenever an environment is about to be drawn (rounds 2 to 10), env_weights,
\* updated and divided by its maximum in the round before, is a probability
\* vector, so that the draw does not raise: short of a division by a zero maximum
\* error, the constructor raises for no list of environments but the empty one.
C5_SamplerGetsDistribution ==
    /\ (ada_pc = "fit" /\ i >= 1 /\ NoZeroMax) => ValidP(env_weights)
    /\ (ada_pc = "raised" /\ NoZeroMax) => Len(environments) = 0

BelowHalf(a) == FLt(Num(0), a) /\ FLt(a, Frac(1, 2))

\* C6: a round whose avg_error is above 0 and below 1/2 gives its classifier a
\* weight that is a number and not negative; if every round so far was such a
\* round, the sum of the weights given so far is positive.
C6_NonNegativeBelowHalf ==
    /\ \A r \in 1..RoundsDone :
        BelowHalf(avg_errors[r]) =>
            /\ classifier_weights[r].k \in {"fin", "pinf"}
            /\ LSign(classifier_weights[r]) >= 0
    /\ (RoundsDone >= 1 /\ \A r \in 1..RoundsDone : BelowHalf(avg_errors[r])) =>
            LSign(SumOfWeights(SubSeq(classifier_weights, 1, RoundsDone))) = 1

C6_Witness ==
    /\ ada_pc = "reweight"
    /\ BelowHalf(avg_error)
    /\ classifier_weights[i + 1] = HalfLog(Num(2))

\* The mean of mse weighted by env_weights, for weights that are fractions.
RECURSIVE WeightedMseSum(_)
WeightedMseSum(n) ==
    IF n = 0 THEN Num(0)
    ELSE FAdd(WeightedMseSum(n - 1), FMul(SymValue(env_weights[n].fs), mse[n]))

WeightedMse == FDiv(WeightedMseSum(Len(mse)), WValueSum(env_weights, Len(mse)))

\* C7: the error a round derives its classifier weight from is the classifier's
\* mean squared error over the environments weighted by the round's
\* env_weights, and the classifier weight is half the log-odds of that error
\* (rounds whose largest error is zero aside).
C7_WeightedError ==
    (ada_pc = "reweight"
        /\ FMax(mse) # Num(0)
        /\ \A e \in 1..Len(env_weights) :
             env_weights[e].k = "pos" /\ SymWhole(env_weights[e].fs)) =>
        /\ avg_error = WeightedMse
        /\ classifier_weights[i + 1]
             = HalfLog(FDiv(FSub(Num(1), WeightedMse), WeightedMse))

\* C10: in a round whose largest mean squared error is not zero, the divided
\* errors lie in [0, 1] and one of them is 1, avg_error lies in [1/n, 1], beta in
\* [0, n - 1], the classifier weight is at most log(n - 1)/2, and is not positive
\* when there are at most two environments.
C10_NormalisedErrorRange ==
    (ada_pc = "reweight" /\ FMax(mse) # Num(0)) =>
        LET n == Len(environments) IN
        /\ \E e \in 1..n : env_errors[e] = Num(1)
        /\ \A e \in 1..n : FLe(Num(0), env_errors[e]) /\ FLe(env_errors[e], Num(1))
        /\ FLe(Frac(1, n), avg_error) /\ FLe(avg_error, Num(1))
        /\ FLe(Num(0), beta) /\ FLe(beta, Num(n - 1))
        /\ LLe(classifier_weights[i + 1], HalfLog(Num(n - 1)))
        /\ n <= 2 => LLe(classifier_weights[i + 1], LZero)

C10_Witness ==
    /\ ada_pc = "reweight"
    /\ Len(environments) = 3
    /\ \E e \in 1..3 : FLt(Num(0), env_errors[e]) /\ FLt(env_errors[e], Num(1))
    /\ \E e \in 1..3 : env_errors[e] = Num(0)
    /\ FLt(Frac(1, 3), avg_error)

====
